---- MODULE Spec2Model ----
(***************************************************************************)
(* Model of static/js/main.js of StockSage: the primary stock search       *)
(* (stockSearch / searchDropdown), the watchlist search (watchlistSymbol / *)
(* watchlistSearchDropdown) and the Chart.js builders for the priceChart   *)
(* and rsiChart canvases.                                                  *)
(*                                                                         *)
(* JavaScript strings are sequences of one-character strings, so that      *)
(* trim(), toUpperCase() and endsWith() are computed character by          *)
(* character.  The page is the one the script is written for: every        *)
(* element the script looks up by id exists, and feather and Chart are     *)
(* loaded.                                                                 *)
(***************************************************************************)
EXTENDS Integers, Sequences, FiniteSets, TLC

VARIABLES
    stockSearch,              \* value of <input id="stockSearch">
    watchlistSymbol,          \* value of <input id="watchlistSymbol">
    searchTimeout,            \* main.js:4, the pending debounce timer of the primary search
    watchlistTimeout,         \* main.js:357, the pending debounce timer of the watchlist search
    selectedStockSymbol,      \* main.js:5
    selectedExchange,         \* main.js:6
    searchDropdown,           \* <div id="searchDropdown">: rows, display, active row
    watchlistSearchDropdown,  \* <div id="watchlistSearchDropdown">
    fetches,                  \* per widget: the fetch() calls awaiting their response
    location,                 \* window.location.href once analyzeSelectedStock has set it
    alerts,                   \* number of alert boxes showAlert has put on the page
    submitDisabled,           \* disabled flag of the form's submit button
    priceChart,               \* main.js:540
    rsiChart,                 \* main.js:541
    instances,                \* every Chart constructed so far, in order of construction
    unhandledRejection,       \* whether a promise of a lookup rejected with no handler
    hist,                     \* per widget: lookups sent, lookup on show, last input short
    closed,                   \* per widget: the dropdown was closed since the last input
    timers                    \* per widget: the setTimeout callbacks of the debounce still to run

vars == <<stockSearch, watchlistSymbol, searchTimeout, watchlistTimeout,
          selectedStockSymbol, selectedExchange, searchDropdown,
          watchlistSearchDropdown, fetches, location, alerts, submitDisabled,
          priceChart, rsiChart, instances, unhandledRejection, hist, closed, timers>>

\* what is kept of the past where a property asks for it
history == <<closed, timers>>

\* the state of the primary search, of the watchlist search, of the rest of
\* the page, and of the charts
primaryVars == <<stockSearch, searchTimeout, searchDropdown, selectedStockSymbol,
                 selectedExchange>>
watchlistVars == <<watchlistSymbol, watchlistTimeout, watchlistSearchDropdown>>
pageVars == <<location, alerts, submitDisabled>>
chartVars == <<priceChart, rsiChart, instances>>

---------------------------------------------------------------------------
(* Bounds of the model.                                                    *)

\* lookups one widget sends during one page load
MaxLookups == 2
\* suggestions in one response of the search endpoint
MaxResults == 2
\* alert boxes shown during one page load
MaxAlerts == 1
\* Chart instances constructed during one page load
MaxCharts == 3

---------------------------------------------------------------------------
(* JavaScript strings.                                                     *)

Lower == <<"a","b","c","d","e","f","g","h","i","j","k","l","m",
           "n","o","p","q","r","s","t","u","v","w","x","y","z">>
Upper == <<"A","B","C","D","E","F","G","H","I","J","K","L","M",
           "N","O","P","Q","R","S","T","U","V","W","X","Y","Z">>

\* the value `undefined`, which is no string
Undefined == <<"undefined">>
\* String(undefined), what assigning undefined to input.value stores
UndefinedText == <<"u","n","d","e","f","i","n","e","d">>

IsSpace(c) == c = " "

RECURSIVE TrimStart(_)
TrimStart(s) ==
    IF s # <<>> /\ IsSpace(Head(s)) THEN TrimStart(Tail(s)) ELSE s

RECURSIVE TrimEnd(_)
TrimEnd(s) ==
    IF s # <<>> /\ IsSpace(s[Len(s)]) THEN TrimEnd(SubSeq(s, 1, Len(s) - 1)) ELSE s

\* String.prototype.trim
Trim(s) == TrimEnd(TrimStart(s))

UpperChar(c) ==
    IF \E i \in 1..Len(Lower) : Lower[i] = c
    THEN Upper[CHOOSE i \in 1..Len(Lower) : Lower[i] = c]
    ELSE c

\* String.prototype.toUpperCase
ToUpperCase(s) == [i \in 1..Len(s) |-> UpperChar(s[i])]

\* String.prototype.endsWith
EndsWith(s, suffix) ==
    /\ Len(s) >= Len(suffix)
    /\ SubSeq(s, Len(s) - Len(suffix) + 1, Len(s)) = suffix

\* a value used as a condition: '' and undefined are falsy
Truthy(x) == x # <<>> /\ x # Undefined

DotNS == <<".","N","S">>
DotBO == <<".","B","O">>
AnalyzePath == <<"/","a","n","a","l","y","z","e","/">>

---------------------------------------------------------------------------
(* Data.                                                                   *)

\* setTimeout(..., 300), main.js:35 and main.js:376
DebounceMs == 300

Widgets == {"s", "w"}
Exchanges == {"NSE", "BSE"}

\* one element of the JSON array /api/search_stocks answers with
Stock(sym) ==
    [symbol |-> sym, nse_symbol |-> sym \o DotNS, bse_symbol |-> sym \o DotBO]

Catalogue ==
    << Stock(<<"T","C","S">>), Stock(<<"I","N","F","Y">>),
       Stock(<<"S","B","I","N">>), Stock(<<"I","T","C">>) >>

\* what response.json() resolves to: null, or an array of suggestions
Null == [null |-> TRUE, items |-> <<>>]
Array(items) == [null |-> FALSE, items |-> items]

\* the bodies a successful response can carry
Payloads ==
    {Null} \cup
    { Array(SubSeq(Catalogue, 1, n)) :
        n \in 0..(IF MaxResults < Len(Catalogue) THEN MaxResults ELSE Len(Catalogue)) }

\* how a fetch() can end: the promise rejects, the status is not 2xx,
\* response.json() rejects, or a body arrives
Failures == {"reject", "not_ok", "bad_json"}

\* what the user can have typed into the primary search when an input event fires
SearchInputs ==
    { <<" "," ">>, <<"t","c","s"," ">>,
      <<"T","C","S",".","N","S">>, <<"t","c","s",".","b","o">> }

\* what the user can have typed into the watchlist search
WatchlistInputs == { <<"i"," ">>, <<"i","n">>, <<" ","i","n","f"," ">> }

\* no timer is pending: searchTimeout is undefined, or names a timer that has
\* run or was cleared
NoTimer == [pending |-> FALSE, query |-> <<>>, delay |-> 0]

\* clearTimeout(timer); timer = setTimeout(() => search(query), 300): the one
\* timer the variable names is replaced
SetTimeout(query) == [pending |-> TRUE, query |-> query, delay |-> DebounceMs]

NoLocation == <<>>

---------------------------------------------------------------------------
(* The dropdowns: the rows innerHTML holds, style.display, and the rows    *)
(* carrying the class "active".                                            *)

Row(kind, symbol, nse, bse) ==
    [kind |-> kind, symbol |-> symbol, nse |-> nse, bse |-> bse]

LoadingRow == Row("loading", Undefined, Undefined, Undefined)
ErrorRow == Row("error", Undefined, Undefined, Undefined)
NoStocksRow == Row("empty", Undefined, Undefined, Undefined)

\* the <div class="dropdown-item search-result" data-symbol data-nse data-bse>
\* rendered for one suggestion
ResultRow(stock) ==
    Row("result", stock.symbol, stock.nse_symbol, stock.bse_symbol)

EmptyDropdown == [rows |-> <<>>, visible |-> FALSE, active |-> {}]

\* dropdown.innerHTML = ...: the old rows, and their classes, are gone
SetInnerHTML(dd, rows) == [dd EXCEPT !.rows = rows, !.active = {}]

showSearchDropdown(dd) == [dd EXCEPT !.visible = TRUE]

\* hideSearchDropdown leaving the class "active" on the rows
hideSearchDropdownKeepActive(dd) == [dd EXCEPT !.visible = FALSE]

hideSearchDropdown(dd) == [dd EXCEPT !.visible = FALSE, !.active = {}]

showSearchLoading(dd) == showSearchDropdown(SetInnerHTML(dd, <<LoadingRow>>))

showSearchError(dd) == showSearchDropdown(SetInnerHTML(dd, <<ErrorRow>>))

\* displaySearchResults rendering one row too few
displaySearchResultsShort(dd, suggestions) ==
    IF suggestions.null \/ Len(suggestions.items) = 0
    THEN showSearchDropdown(SetInnerHTML(dd, <<NoStocksRow>>))
    ELSE showSearchDropdown(
             SetInnerHTML(dd, [i \in 1..(Len(suggestions.items) - 1) |->
                                  ResultRow(suggestions.items[i])]))

displaySearchResults(dd, suggestions) ==
    IF suggestions.null \/ Len(suggestions.items) = 0
    THEN showSearchDropdown(SetInnerHTML(dd, <<NoStocksRow>>))
    ELSE showSearchDropdown(
             SetInnerHTML(dd, [i \in 1..Len(suggestions.items) |->
                                  ResultRow(suggestions.items[i])]))

showWatchlistDropdown(dd) == [dd EXCEPT !.visible = TRUE]

hideWatchlistDropdown(dd) == [dd EXCEPT !.visible = FALSE, !.active = {}]

showWatchlistSearchError(dd) == showWatchlistDropdown(SetInnerHTML(dd, <<ErrorRow>>))

displayWatchlistSearchResults(dd, suggestions) ==
    IF suggestions.null \/ Len(suggestions.items) = 0
    THEN showWatchlistDropdown(SetInnerHTML(dd, <<NoStocksRow>>))
    ELSE showWatchlistDropdown(
             SetInnerHTML(dd, [i \in 1..Len(suggestions.items) |->
                                  ResultRow(suggestions.items[i])]))

\* querySelector('.dropdown-item.active'): the first active row, 0 when there is none
ActiveItem(dd) ==
    IF dd.active = {} THEN 0
    ELSE CHOOSE i \in dd.active : \A j \in dd.active : i <= j

\* ArrowDown wrapping from the last row round to the first
ArrowDownWrapping(dd) ==
    LET a == ActiveItem(dd) IN
    IF a # 0
    THEN [dd EXCEPT !.active = (dd.active \ {a}) \cup {(a % Len(dd.rows)) + 1}]
    ELSE IF Len(dd.rows) > 0 THEN [dd EXCEPT !.active = dd.active \cup {1}] ELSE dd

\* case 'ArrowDown' of the keydown listeners
ArrowDown(dd) ==
    LET a == ActiveItem(dd) IN
    IF a # 0
    THEN IF a < Len(dd.rows)
         THEN [dd EXCEPT !.active = (dd.active \ {a}) \cup {a + 1}]
         ELSE dd
    ELSE IF Len(dd.rows) > 0 THEN [dd EXCEPT !.active = dd.active \cup {1}] ELSE dd

\* ArrowUp leaving the class "active" on the row it moves from
ArrowUpKeepingMark(dd) ==
    LET a == ActiveItem(dd) IN
    IF a # 0
    THEN IF a > 1 THEN [dd EXCEPT !.active = dd.active \cup {a - 1}] ELSE dd
    ELSE IF Len(dd.rows) > 0 THEN [dd EXCEPT !.active = dd.active \cup {Len(dd.rows)}]
         ELSE dd

\* case 'ArrowUp' of the keydown listeners
ArrowUp(dd) ==
    LET a == ActiveItem(dd) IN
    IF a # 0
    THEN IF a > 1
         THEN [dd EXCEPT !.active = (dd.active \ {a}) \cup {a - 1}]
         ELSE dd
    ELSE IF Len(dd.rows) > 0
         THEN [dd EXCEPT !.active = dd.active \cup {Len(dd.rows)}]
         ELSE dd

---------------------------------------------------------------------------
(* Bookkeeping of the model, per widget: the lookups sent so far (sent),   *)
(* the lookup whose response the rows on show come from (shown, 0 when     *)
(* they come from none), and whether the last input event carried a query  *)
(* of fewer than 2 characters (quiet).  closed, kept where a property     *)
(* asks for it, tells per widget whether the dropdown was closed by        *)
(* Escape, by a click outside or by committing a row since the last input  *)
(* event.                                                                  *)

NoHist == [sent |-> 0, shown |-> 0, quiet |-> FALSE]

HistInput(h, query) == [h EXCEPT !.quiet = Len(query) < 2]

\* a handler hides the dropdown dd of widget w: the user has closed it if it
\* was on show
Close(w, dd) == [closed EXCEPT ![w] = @ \/ dd.visible]

\* an input event of widget w
Reopen(w) == [closed EXCEPT ![w] = FALSE]

\* clearTimeout(timer) without effect: the timer set before stays to run
ClearTimeoutNothing(n, timer) == n

\* clearTimeout(timer), main.js:30 and 371: of the n callbacks still to run,
\* the one the variable names is taken away, if it has not run yet
ClearTimeout(n, timer) == IF timer.pending THEN n - 1 ELSE n

\* the callbacks still to run after the input listener has run with value:
\* none is cleared or set for a query of fewer than 2 characters
TimersOnInput(n, timer, value) ==
    IF Len(Trim(value)) < 2 THEN n ELSE ClearTimeout(n, timer) + 1

\* a callback has run
TimersOnFire(n) == n - 1

HistSend(h, rowsReplaced) ==
    [h EXCEPT !.sent = @ + 1, !.shown = IF rowsReplaced THEN 0 ELSE @]

\* a pending timer runs once its delay has passed, which is any moment from
\* the model's point of view
Due(timer) == timer.pending

---------------------------------------------------------------------------
(* The primary search.                                                     *)

\* the input listener of stockSearch: what it leaves in searchTimeout and
\* in the dropdown, given the input's value
stockSearchOnInput(timer, dd, value) ==
    LET query == Trim(value) IN
    IF Len(query) < 2
    THEN [timer |-> timer, dropdown |-> hideSearchDropdown(dd)]
    ELSE [timer |-> SetTimeout(query), dropdown |-> dd]

\* searchStocks up to its await: the loading row is on show and the fetch is sent
searchStocksSend(dd) == showSearchLoading(dd)

\* searchStocks from its await on: the dropdown it leaves, and whether the
\* promise it returned rejects
searchStocksSettle(dd, outcome, payload) ==
    IF outcome = "ok"
    THEN [dropdown |-> displaySearchResults(dd, payload), rejected |-> FALSE]
    ELSE [dropdown |-> showSearchError(dd), rejected |-> FALSE]

\* element.dataset.x assigned to input.value: undefined is stored as its text
ToValue(x) == IF x = Undefined THEN UndefinedText ELSE x

\* selectStock storing the NSE symbol whatever the exchange
selectStockAlwaysNSE(row, exchange, dd) ==
    [value |-> ToValue(row.symbol),
     selected |-> row.nse,
     dropdown |-> hideSearchDropdown(dd)]

selectStock(row, exchange, dd) ==
    [value |-> ToValue(row.symbol),
     selected |-> IF exchange = "BSE" THEN row.bse ELSE row.nse,
     dropdown |-> hideSearchDropdown(dd)]

\* AnalyzeSymbol looking at the committed symbol before the typed text
AnalyzeSymbolSelectedFirst(value, selected, exchange) ==
    LET symbol == ToUpperCase(Trim(value)) IN
    IF Truthy(selected) THEN selected
    ELSE IF ~Truthy(symbol) THEN <<>>
    ELSE IF ~EndsWith(symbol, DotNS) /\ ~EndsWith(symbol, DotBO)
         THEN IF exchange = "BSE" THEN symbol \o DotBO ELSE symbol \o DotNS
         ELSE symbol

\* AnalyzeSymbol appending the suffix of the exchange to every typed symbol
AnalyzeSymbolAlwaysSuffixed(value, selected, exchange) ==
    LET symbol == ToUpperCase(Trim(value)) IN
    IF ~Truthy(symbol) THEN <<>>
    ELSE IF Truthy(selected) THEN selected
    ELSE IF exchange = "BSE" THEN symbol \o DotBO ELSE symbol \o DotNS

\* the symbol analyzeSelectedStock navigates to, <<>> when it only warns
AnalyzeSymbol(value, selected, exchange) ==
    LET symbol == ToUpperCase(Trim(value)) IN
    IF ~Truthy(symbol) THEN <<>>
    ELSE IF Truthy(selected) THEN selected
    ELSE IF ~EndsWith(symbol, DotNS) /\ ~EndsWith(symbol, DotBO)
         THEN IF exchange = "BSE" THEN symbol \o DotBO ELSE symbol \o DotNS
         ELSE symbol

\* analyzeSelectedStock, with showAlert and showAnalysisLoading
analyzeSelectedStock ==
    LET symbol == AnalyzeSymbol(stockSearch, selectedStockSymbol, selectedExchange) IN
    IF symbol = <<>>
    THEN /\ alerts < MaxAlerts
         /\ alerts' = alerts + 1
         /\ UNCHANGED <<location, submitDisabled>>
    ELSE /\ submitDisabled' = TRUE
         /\ location' = AnalyzePath \o symbol
         /\ UNCHANGED alerts

\* the page is gone once window.location.href is set
PageLive == location = NoLocation

StockInput(value) ==
    /\ PageLive
    /\ Len(Trim(value)) >= 2 => hist.s.sent < MaxLookups
    /\ LET after == stockSearchOnInput(searchTimeout, searchDropdown, value) IN
       /\ stockSearch' = value
       /\ searchTimeout' = after.timer
       /\ searchDropdown' = after.dropdown
    /\ hist' = [hist EXCEPT !.s = HistInput(@, Trim(value))]
    /\ UNCHANGED <<selectedStockSymbol, selectedExchange, watchlistVars, pageVars,
                   chartVars, fetches, unhandledRejection>>

\* the timer callback of main.js:33 runs searchStocks(query) up to its await
SearchTimerFires ==
    /\ PageLive
    /\ Due(searchTimeout)
    /\ searchTimeout' = NoTimer
    /\ searchDropdown' = searchStocksSend(searchDropdown)
    /\ fetches' = [fetches EXCEPT
                     !.s = @ \cup {[gen |-> hist.s.sent + 1]}]
    /\ hist' = [hist EXCEPT !.s = HistSend(@, TRUE)]
    /\ UNCHANGED <<stockSearch, selectedStockSymbol, selectedExchange, watchlistVars,
                   pageVars, chartVars, unhandledRejection>>

\* SearchResponse with a request-generation guard: the response of a lookup
\* that is not the last one sent is dropped
SearchResponseGuarded(req, outcome, payload) ==
    /\ PageLive
    /\ req \in fetches.s
    /\ LET after == searchStocksSettle(searchDropdown, outcome, payload)
           stale == req.gen < hist.s.sent IN
       /\ searchDropdown' = IF stale THEN searchDropdown ELSE after.dropdown
       /\ unhandledRejection' = (unhandledRejection \/ after.rejected)
       /\ hist' = IF stale THEN hist ELSE [hist EXCEPT !.s.shown = req.gen]
    /\ fetches' = [fetches EXCEPT !.s = @ \ {req}]
    /\ UNCHANGED <<stockSearch, searchTimeout, selectedStockSymbol, selectedExchange,
                   watchlistVars, pageVars, chartVars>>

\* the fetch of one lookup settles and searchStocks runs to its end
SearchResponse(req, outcome, payload) ==
    /\ PageLive
    /\ req \in fetches.s
    /\ LET after == searchStocksSettle(searchDropdown, outcome, payload) IN
       /\ searchDropdown' = after.dropdown
       /\ unhandledRejection' = (unhandledRejection \/ after.rejected)
    /\ fetches' = [fetches EXCEPT !.s = @ \ {req}]
    /\ hist' = [hist EXCEPT !.s.shown = req.gen]
    /\ UNCHANGED <<stockSearch, searchTimeout, selectedStockSymbol, selectedExchange,
                   watchlistVars, pageVars, chartVars>>

\* the keydown listener of stockSearch
StockKeydown(key) ==
    /\ PageLive
    /\ LET a == ActiveItem(searchDropdown) IN
       CASE key = "ArrowDown" ->
              /\ searchDropdown' = ArrowDown(searchDropdown)
              /\ UNCHANGED <<stockSearch, selectedStockSymbol, pageVars>>
         [] key = "ArrowUp" ->
              /\ searchDropdown' = ArrowUp(searchDropdown)
              /\ UNCHANGED <<stockSearch, selectedStockSymbol, pageVars>>
         [] key = "Enter" /\ a # 0 ->
              LET after == selectStock(searchDropdown.rows[a], selectedExchange,
                                       searchDropdown) IN
              /\ stockSearch' = after.value
              /\ selectedStockSymbol' = after.selected
              /\ searchDropdown' = after.dropdown
              /\ UNCHANGED pageVars
         [] key = "Enter" /\ a = 0 ->
              /\ analyzeSelectedStock
              /\ UNCHANGED <<stockSearch, selectedStockSymbol, searchDropdown>>
         [] key = "Escape" ->
              /\ searchDropdown' = hideSearchDropdown(searchDropdown)
              /\ UNCHANGED <<stockSearch, selectedStockSymbol, pageVars>>
    /\ UNCHANGED <<searchTimeout, selectedExchange, watchlistVars, chartVars, fetches,
                   hist, unhandledRejection>>

\* the submit listener of stockSearchForm
SubmitForm ==
    /\ PageLive
    /\ analyzeSelectedStock
    /\ UNCHANGED <<primaryVars, watchlistVars, chartVars, fetches, hist,
                   unhandledRejection>>

\* the change listener of exchangeSelect
ExchangeChange(exchange) ==
    /\ PageLive
    /\ selectedExchange' = exchange
    /\ UNCHANGED <<stockSearch, searchTimeout, searchDropdown, selectedStockSymbol,
                   watchlistVars, pageVars, chartVars, fetches, hist,
                   unhandledRejection>>

\* the timer of showAlert removes an alert box
AlertDismissed ==
    /\ PageLive
    /\ alerts > 0
    /\ alerts' = alerts - 1
    /\ UNCHANGED <<primaryVars, watchlistVars, location, submitDisabled, chartVars,
                   fetches, hist, unhandledRejection>>

---------------------------------------------------------------------------
(* The watchlist search.                                                   *)

\* the input listener of watchlistSymbol
watchlistOnInput(timer, dd, value) ==
    LET query == Trim(value) IN
    IF Len(query) < 2
    THEN [timer |-> timer, dropdown |-> hideWatchlistDropdown(dd)]
    ELSE [timer |-> SetTimeout(query), dropdown |-> dd]

\* searchStocksForWatchlist up to its await: the fetch is sent, the dropdown is as it was
searchStocksForWatchlistSend(dd) == dd

\* searchStocksForWatchlist without its try/catch: a failed fetch leaves the
\* dropdown as it was and rejects the promise
searchStocksForWatchlistUncaught(dd, outcome, payload) ==
    IF outcome = "ok"
    THEN [dropdown |-> displayWatchlistSearchResults(dd, payload), rejected |-> FALSE]
    ELSE [dropdown |-> dd, rejected |-> TRUE]

\* searchStocksForWatchlist from its await on
searchStocksForWatchlistSettle(dd, outcome, payload) ==
    IF outcome = "ok"
    THEN [dropdown |-> displayWatchlistSearchResults(dd, payload), rejected |-> FALSE]
    ELSE [dropdown |-> showWatchlistSearchError(dd), rejected |-> FALSE]

selectWatchlistStock(row, dd) ==
    [value |-> ToValue(row.symbol), dropdown |-> hideWatchlistDropdown(dd)]

\* the input listener of the watchlist search clearing the timer of the
\* primary search too, as it would with one timer variable for both
WatchlistInputSharedTimer(value) ==
    /\ PageLive
    /\ Len(Trim(value)) >= 2 => hist.w.sent < MaxLookups
    /\ LET after == watchlistOnInput(watchlistTimeout, watchlistSearchDropdown, value) IN
       /\ watchlistSymbol' = value
       /\ watchlistTimeout' = after.timer
       /\ watchlistSearchDropdown' = after.dropdown
       /\ searchTimeout' = IF Len(Trim(value)) >= 2 THEN NoTimer ELSE searchTimeout
    /\ hist' = [hist EXCEPT !.w = HistInput(@, Trim(value))]
    /\ UNCHANGED <<stockSearch, searchDropdown, selectedStockSymbol, selectedExchange,
                   pageVars, chartVars, fetches, unhandledRejection>>

WatchlistInput(value) ==
    /\ PageLive
    /\ Len(Trim(value)) >= 2 => hist.w.sent < MaxLookups
    /\ LET after == watchlistOnInput(watchlistTimeout, watchlistSearchDropdown, value) IN
       /\ watchlistSymbol' = value
       /\ watchlistTimeout' = after.timer
       /\ watchlistSearchDropdown' = after.dropdown
    /\ hist' = [hist EXCEPT !.w = HistInput(@, Trim(value))]
    /\ UNCHANGED <<primaryVars, pageVars, chartVars, fetches, unhandledRejection>>

\* the timer callback of main.js:374 runs searchStocksForWatchlist(query) up to its await
WatchlistTimerFires ==
    /\ PageLive
    /\ Due(watchlistTimeout)
    /\ watchlistTimeout' = NoTimer
    /\ watchlistSearchDropdown' = searchStocksForWatchlistSend(watchlistSearchDropdown)
    /\ fetches' = [fetches EXCEPT
                     !.w = @ \cup {[gen |-> hist.w.sent + 1]}]
    /\ hist' = [hist EXCEPT !.w = HistSend(@, FALSE)]
    /\ UNCHANGED <<watchlistSymbol, primaryVars, pageVars, chartVars,
                   unhandledRejection>>

\* the fetch of one lookup settles and searchStocksForWatchlist runs to its end
WatchlistResponse(req, outcome, payload) ==
    /\ PageLive
    /\ req \in fetches.w
    /\ LET after == searchStocksForWatchlistSettle(watchlistSearchDropdown, outcome,
                                                   payload) IN
       /\ watchlistSearchDropdown' = after.dropdown
       /\ unhandledRejection' = (unhandledRejection \/ after.rejected)
    /\ fetches' = [fetches EXCEPT !.w = @ \ {req}]
    /\ hist' = [hist EXCEPT !.w.shown = req.gen]
    /\ UNCHANGED <<watchlistSymbol, watchlistTimeout, primaryVars, pageVars, chartVars>>

\* the keydown listener of watchlistSymbol
WatchlistKeydown(key) ==
    /\ PageLive
    /\ LET a == ActiveItem(watchlistSearchDropdown) IN
       CASE key = "ArrowDown" ->
              /\ watchlistSearchDropdown' = ArrowDown(watchlistSearchDropdown)
              /\ UNCHANGED watchlistSymbol
         [] key = "ArrowUp" ->
              /\ watchlistSearchDropdown' = ArrowUp(watchlistSearchDropdown)
              /\ UNCHANGED watchlistSymbol
         [] key = "Enter" /\ a # 0 ->
              LET after == selectWatchlistStock(watchlistSearchDropdown.rows[a],
                                                watchlistSearchDropdown) IN
              /\ watchlistSymbol' = after.value
              /\ watchlistSearchDropdown' = after.dropdown
         [] key = "Enter" /\ a = 0 ->
              UNCHANGED <<watchlistSymbol, watchlistSearchDropdown>>
         [] key = "Escape" ->
              /\ watchlistSearchDropdown' = hideWatchlistDropdown(watchlistSearchDropdown)
              /\ UNCHANGED watchlistSymbol
    /\ UNCHANGED <<watchlistTimeout, primaryVars, pageVars, chartVars, fetches,
                   hist, unhandledRejection>>

---------------------------------------------------------------------------
(* Clicks.  A click runs the onclick of the row it hits, then bubbles to   *)
(* the two click listeners of document (main.js:54 and main.js:380), each  *)
(* of which hides its dropdown unless the target is inside its widget.     *)

Keys == {"ArrowDown", "ArrowUp", "Enter", "Escape"}

\* a click on row i of the primary dropdown
ClickSearchRow(i) ==
    /\ PageLive
    /\ searchDropdown.visible
    /\ i \in 1..Len(searchDropdown.rows)
    /\ LET row == searchDropdown.rows[i]
           after == selectStock(row, selectedExchange, searchDropdown) IN
       IF row.kind = "result"
       THEN /\ stockSearch' = after.value
            /\ selectedStockSymbol' = after.selected
            /\ searchDropdown' = after.dropdown
       ELSE UNCHANGED <<stockSearch, selectedStockSymbol, searchDropdown>>
    /\ watchlistSearchDropdown' = hideWatchlistDropdown(watchlistSearchDropdown)
    /\ UNCHANGED <<searchTimeout, selectedExchange, watchlistSymbol, watchlistTimeout,
                   pageVars, chartVars, fetches, hist, unhandledRejection>>

\* a click on row i of the watchlist dropdown
ClickWatchlistRow(i) ==
    /\ PageLive
    /\ watchlistSearchDropdown.visible
    /\ i \in 1..Len(watchlistSearchDropdown.rows)
    /\ LET row == watchlistSearchDropdown.rows[i]
           after == selectWatchlistStock(row, watchlistSearchDropdown) IN
       IF row.kind = "result"
       THEN /\ watchlistSymbol' = after.value
            /\ watchlistSearchDropdown' = after.dropdown
       ELSE UNCHANGED <<watchlistSymbol, watchlistSearchDropdown>>
    /\ searchDropdown' = hideSearchDropdown(searchDropdown)
    /\ UNCHANGED <<stockSearch, searchTimeout, selectedStockSymbol, selectedExchange,
                   watchlistTimeout, pageVars, chartVars, fetches, hist,
                   unhandledRejection>>

\* a click on one of the two inputs ("s", "w"), or on neither widget ("-")
ClickOutsideRows(target) ==
    /\ PageLive
    /\ searchDropdown' =
           IF target = "s" THEN searchDropdown ELSE hideSearchDropdown(searchDropdown)
    /\ watchlistSearchDropdown' =
           IF target = "w" THEN watchlistSearchDropdown
           ELSE hideWatchlistDropdown(watchlistSearchDropdown)
    /\ UNCHANGED <<stockSearch, searchTimeout, selectedStockSymbol, selectedExchange,
                   watchlistSymbol, watchlistTimeout, pageVars, chartVars, fetches,
                   hist, unhandledRejection>>

---------------------------------------------------------------------------
(* The charts.  A series of a payload is absent (undefined), or an array   *)
(* of numbers; an instance of Chart is live from its construction to its   *)
(* destroy().                                                              *)

Absent == [present |-> FALSE, values |-> <<>>]
Series(values) == [present |-> TRUE, values |-> values]

\* series && series.length > 0
NonEmpty(series) == series.present /\ Len(series.values) > 0

Indicators == {"ema_9", "ema_21", "sma_50", "sma_200", "bb_upper", "bb_lower"}

\* the series a payload can carry for an indicator, and for the volume
IndicatorSeries == {Absent, Series(<<>>), Series(<<101, 103>>)}
VolumeSeries == {Absent, Series(<<>>), Series(<<5, 9>>), Series(<<7, 2>>)}

\* chartData of initializePriceChart: null, an object without prices, or a
\* payload of dates, prices and indicators
NoChartData == [kind |-> "null"]
NoPrices == [kind |-> "noprices"]
ChartPayloads ==
    { [kind |-> "payload", dates |-> <<"d1", "d2">>, close |-> <<100, 102>>,
       volume |-> v, indicators |-> ind] :
        v \in VolumeSeries,
        ind \in { f \in [Indicators -> IndicatorSeries] :
                    \A n \in {"ema_21", "sma_50", "sma_200"} : f[n] # Series(<<>>) } }

\* rsiData of initializeRSIChart
RSIInputs == {Absent, Series(<<>>), Series(<<45, 120>>)}

Dataset(label, data, axis) == [label |-> label, data |-> data, yAxisID |-> axis]

\* datasets.push(...) when the indicator's series is there and not empty
PushIf(datasets, cond, dataset) == IF cond THEN Append(datasets, dataset) ELSE datasets

\* the datasets array of initializePriceChart, main.js:566-668
PriceDatasets(chartData) ==
    LET ind == chartData.indicators
        d0 == <<Dataset("Close Price", chartData.close, "y")>>
        d1 == PushIf(d0, NonEmpty(ind["ema_9"]), Dataset("EMA 9", ind["ema_9"].values, "y"))
        d2 == PushIf(d1, NonEmpty(ind["ema_21"]),
                     Dataset("EMA 21", ind["ema_21"].values, "y"))
        d3 == PushIf(d2, NonEmpty(ind["sma_50"]),
                     Dataset("SMA 50", ind["sma_50"].values, "y"))
        d4 == PushIf(d3, NonEmpty(ind["sma_200"]),
                     Dataset("SMA 200", ind["sma_200"].values, "y"))
        d5 == PushIf(d4, NonEmpty(ind["bb_upper"]),
                     Dataset("BB Upper", ind["bb_upper"].values, "y"))
        d6 == PushIf(d5, NonEmpty(ind["bb_upper"]),
                     Dataset("BB Lower", ind["bb_lower"].values, "y"))
    IN  PushIf(d6, NonEmpty(chartData.volume),
               Dataset("Volume", chartData.volume.values, "y1"))

RECURSIVE MaxOf(_)
MaxOf(values) ==
    IF Len(values) = 1 THEN values[1]
    ELSE LET m == MaxOf(Tail(values)) IN IF values[1] > m THEN values[1] ELSE m

\* Y1Max without the factor 4
Y1MaxUnscaled(volume) ==
    LET args == IF volume.present THEN volume.values ELSE <<0>> IN
    IF Len(args) = 0 THEN [finite |-> FALSE, value |-> 0]
    ELSE [finite |-> TRUE, value |-> MaxOf(args)]

\* Math.max(...(volume || [0])) * 4; Math.max() of no arguments is -Infinity,
\* and so is 4 times it
Y1Max(volume) ==
    LET args == IF volume.present THEN volume.values ELSE <<0>> IN
    IF Len(args) = 0 THEN [finite |-> FALSE, value |-> 0]
    ELSE [finite |-> TRUE, value |-> MaxOf(args) * 4]

\* the config object of initializePriceChart, main.js:671-753
PriceConfig(chartData) ==
    [type |-> "line", labels |-> chartData.dates, datasets |-> PriceDatasets(chartData),
     y1max |-> Y1Max(chartData.volume)]

\* RSIConfig with a y-axis that grows with the data
RSIConfigAutoRange(rsiData) ==
    [type |-> "line", datasets |-> <<Dataset("RSI", rsiData.values, "y")>>,
     ymin |-> 0,
     ymax |-> IF Len(rsiData.values) > 0 /\ MaxOf(rsiData.values) > 100
              THEN MaxOf(rsiData.values) ELSE 100,
     annotations |-> {[name |-> "overbought", yMin |-> 70, yMax |-> 70],
                      [name |-> "oversold", yMin |-> 30, yMax |-> 30]}]

\* the config object of initializeRSIChart, main.js:769-858
RSIConfig(rsiData) ==
    [type |-> "line", datasets |-> <<Dataset("RSI", rsiData.values, "y")>>,
     ymin |-> 0, ymax |-> 100,
     annotations |-> {[name |-> "overbought", yMin |-> 70, yMax |-> 70],
                      [name |-> "oversold", yMin |-> 30, yMax |-> 30]}]

NoConfig == [type |-> "none"]

\* chart.destroy(): the instance draws no more
Destroy(charts, handle) ==
    IF handle = 0 THEN charts
    ELSE [charts EXCEPT ![handle] = [@ EXCEPT !.live = FALSE, !.config = NoConfig]]

\* new Chart(ctx, config)
NewChart(charts, canvas, config) ==
    Append(charts, [canvas |-> canvas, live |-> TRUE, config |-> config])

\* initializePriceChart without the destroy() of the chart it replaces
KeepPriceChart(charts, handle) == charts

\* if (priceChart) priceChart.destroy(), main.js:561-563
DestroyPriceChart(charts, handle) == Destroy(charts, handle)

\* if (rsiChart) rsiChart.destroy(), main.js:765-767
DestroyRSIChart(charts, handle) == Destroy(charts, handle)

initializePriceChart(chartData) ==
    /\ Len(instances) < MaxCharts
    /\ CASE chartData.kind = "null" ->
              UNCHANGED <<priceChart, instances>>
         [] chartData.kind = "noprices" ->
              \* chartData.prices.close throws after the old chart is destroyed
              /\ instances' = DestroyPriceChart(instances, priceChart)
              /\ UNCHANGED priceChart
         [] chartData.kind = "payload" ->
              /\ instances' = NewChart(DestroyPriceChart(instances, priceChart),
                                       "priceChart", PriceConfig(chartData))
              /\ priceChart' = Len(instances) + 1
    /\ UNCHANGED <<rsiChart, primaryVars, watchlistVars, pageVars, fetches,
                   unhandledRejection, hist>>

initializeRSIChart(rsiData) ==
    /\ Len(instances) < MaxCharts
    /\ IF ~rsiData.present
       THEN UNCHANGED <<rsiChart, instances>>
       ELSE /\ instances' = NewChart(DestroyRSIChart(instances, rsiChart),
                                     "rsiChart", RSIConfig(rsiData))
            /\ rsiChart' = Len(instances) + 1
    /\ UNCHANGED <<priceChart, primaryVars, watchlistVars, pageVars, fetches,
                   unhandledRejection, hist>>

---------------------------------------------------------------------------
(* The page after DOMContentLoaded and initializeStockSearch().            *)

Init ==
    /\ stockSearch = <<>>
    /\ watchlistSymbol = <<>>
    /\ searchTimeout = NoTimer
    /\ watchlistTimeout = NoTimer
    /\ selectedStockSymbol = <<>>
    /\ selectedExchange = "NSE"
    /\ searchDropdown = EmptyDropdown
    /\ watchlistSearchDropdown = EmptyDropdown
    /\ fetches = [w \in Widgets |-> {}]
    /\ location = NoLocation
    /\ alerts = 0
    /\ submitDisabled = FALSE
    /\ priceChart = 0
    /\ rsiChart = 0
    /\ instances = <<>>
    /\ unhandledRejection = FALSE
    /\ hist = [w \in Widgets |-> NoHist]
    /\ closed = [w \in Widgets |-> FALSE]
    /\ timers = [w \in Widgets |-> 0]

\* no input event has reached the widget since the page was loaded
SearchUntouched == stockSearch = <<>>
WatchlistUntouched == watchlistSymbol = <<>>

\* The page in use.  During one page load the user types into one of the two
\* search boxes; every other event can come at any time.
Next ==
    \/ \E value \in SearchInputs : WatchlistUntouched /\ StockInput(value)
          /\ UNCHANGED history
    \/ SearchTimerFires /\ UNCHANGED history
    \/ \E req \in fetches.s, outcome \in Failures : SearchResponse(req, outcome, Null)
          /\ UNCHANGED history
    \/ \E req \in fetches.s, payload \in Payloads : SearchResponse(req, "ok", payload)
          /\ UNCHANGED history
    \/ \E key \in Keys : StockKeydown(key) /\ UNCHANGED history
    \/ SubmitForm /\ UNCHANGED history
    \/ \E exchange \in Exchanges : ExchangeChange(exchange) /\ UNCHANGED history
    \/ AlertDismissed /\ UNCHANGED history
    \/ \E value \in WatchlistInputs : SearchUntouched /\ WatchlistInput(value)
          /\ UNCHANGED history
    \/ WatchlistTimerFires /\ UNCHANGED history
    \/ \E req \in fetches.w, outcome \in Failures : WatchlistResponse(req, outcome, Null)
          /\ UNCHANGED history
    \/ \E req \in fetches.w, payload \in Payloads : WatchlistResponse(req, "ok", payload)
          /\ UNCHANGED history
    \/ \E key \in Keys : WatchlistKeydown(key) /\ UNCHANGED history
    \/ \E i \in 1..Len(searchDropdown.rows) : ClickSearchRow(i) /\ UNCHANGED history
    \/ \E i \in 1..Len(watchlistSearchDropdown.rows) : ClickWatchlistRow(i)
          /\ UNCHANGED history
    \/ \E target \in {"s", "w", "-"} : ClickOutsideRows(target) /\ UNCHANGED history

Spec == Init /\ [][Next]_vars

\* the calls of the chart builders
NextCharts ==
    \/ \E chartData \in {NoChartData, NoPrices} \cup ChartPayloads :
          initializePriceChart(chartData) /\ UNCHANGED history
    \/ \E rsiData \in RSIInputs : initializeRSIChart(rsiData) /\ UNCHANGED history

SpecCharts == Init /\ [][NextCharts]_vars

\* the search widgets as under Spec, with closed kept: an input event of a
\* widget resets it, and Escape, a click outside the widget and the commit
\* of a row set it when they hide a dropdown that was on show
NextClosed ==
    \/ \E value \in SearchInputs :
          WatchlistUntouched /\ StockInput(value) /\ closed' = Reopen("s")
          /\ UNCHANGED timers
    \/ SearchTimerFires /\ UNCHANGED history
    \/ \E req \in fetches.s, outcome \in Failures :
          SearchResponse(req, outcome, Null) /\ UNCHANGED history
    \/ \E req \in fetches.s, payload \in Payloads :
          SearchResponse(req, "ok", payload) /\ UNCHANGED history
    \/ \E key \in {"ArrowDown", "ArrowUp"} : StockKeydown(key) /\ UNCHANGED history
    \/ /\ StockKeydown("Enter")
       /\ closed' = IF ActiveItem(searchDropdown) # 0
                    THEN Close("s", searchDropdown) ELSE closed
       /\ UNCHANGED timers
    \/ StockKeydown("Escape") /\ closed' = Close("s", searchDropdown) /\ UNCHANGED timers
    \/ SubmitForm /\ UNCHANGED history
    \/ \E exchange \in Exchanges : ExchangeChange(exchange) /\ UNCHANGED history
    \/ AlertDismissed /\ UNCHANGED history
    \/ \E value \in WatchlistInputs :
          SearchUntouched /\ WatchlistInput(value) /\ closed' = Reopen("w")
          /\ UNCHANGED timers
    \/ WatchlistTimerFires /\ UNCHANGED history
    \/ \E req \in fetches.w, outcome \in Failures :
          WatchlistResponse(req, outcome, Null) /\ UNCHANGED history
    \/ \E req \in fetches.w, payload \in Payloads :
          WatchlistResponse(req, "ok", payload) /\ UNCHANGED history
    \/ \E key \in {"ArrowDown", "ArrowUp"} : WatchlistKeydown(key) /\ UNCHANGED history
    \/ /\ WatchlistKeydown("Enter")
       /\ closed' = IF ActiveItem(watchlistSearchDropdown) # 0
                    THEN Close("w", watchlistSearchDropdown) ELSE closed
       /\ UNCHANGED timers
    \/ WatchlistKeydown("Escape") /\ closed' = Close("w", watchlistSearchDropdown)
          /\ UNCHANGED timers
    \/ \E i \in 1..Len(searchDropdown.rows) :
          /\ ClickSearchRow(i)
          /\ closed' = [closed EXCEPT
                          !.s = @ \/ searchDropdown.rows[i].kind = "result",
                          !.w = @ \/ watchlistSearchDropdown.visible]
          /\ UNCHANGED timers
    \/ \E i \in 1..Len(watchlistSearchDropdown.rows) :
          /\ ClickWatchlistRow(i)
          /\ closed' = [closed EXCEPT
                          !.w = @ \/ watchlistSearchDropdown.rows[i].kind = "result",
                          !.s = @ \/ searchDropdown.visible]
          /\ UNCHANGED timers
    \/ \E target \in {"s", "w", "-"} :
          /\ ClickOutsideRows(target)
          /\ closed' = [closed EXCEPT
                          !.s = @ \/ (target # "s" /\ searchDropdown.visible),
                          !.w = @ \/ (target # "w" /\ watchlistSearchDropdown.visible)]
          /\ UNCHANGED timers

SpecClosed == Init /\ [][NextClosed]_vars

\* the search widgets as under Spec, with timers kept: the input listener
\* clears the timer its variable names and sets one, unless the query is
\* short, and a callback that runs is no longer to run
NextTimers ==
    \/ \E value \in SearchInputs :
          /\ WatchlistUntouched /\ StockInput(value)
          /\ timers' = [timers EXCEPT !.s = TimersOnInput(@, searchTimeout, value)]
          /\ UNCHANGED closed
    \/ /\ SearchTimerFires
       /\ timers' = [timers EXCEPT !.s = TimersOnFire(@)]
       /\ UNCHANGED closed
    \/ \E req \in fetches.s, outcome \in Failures : SearchResponse(req, outcome, Null)
          /\ UNCHANGED history
    \/ \E req \in fetches.s, payload \in Payloads : SearchResponse(req, "ok", payload)
          /\ UNCHANGED history
    \/ \E key \in Keys : StockKeydown(key) /\ UNCHANGED history
    \/ SubmitForm /\ UNCHANGED history
    \/ \E exchange \in Exchanges : ExchangeChange(exchange) /\ UNCHANGED history
    \/ AlertDismissed /\ UNCHANGED history
    \/ \E value \in WatchlistInputs :
          /\ SearchUntouched /\ WatchlistInput(value)
          /\ timers' = [timers EXCEPT !.w = TimersOnInput(@, watchlistTimeout, value)]
          /\ UNCHANGED closed
    \/ /\ WatchlistTimerFires
       /\ timers' = [timers EXCEPT !.w = TimersOnFire(@)]
       /\ UNCHANGED closed
    \/ \E req \in fetches.w, outcome \in Failures : WatchlistResponse(req, outcome, Null)
          /\ UNCHANGED history
    \/ \E req \in fetches.w, payload \in Payloads : WatchlistResponse(req, "ok", payload)
          /\ UNCHANGED history
    \/ \E key \in Keys : WatchlistKeydown(key) /\ UNCHANGED history
    \/ \E i \in 1..Len(searchDropdown.rows) : ClickSearchRow(i) /\ UNCHANGED history
    \/ \E i \in 1..Len(watchlistSearchDropdown.rows) : ClickWatchlistRow(i)
          /\ UNCHANGED history
    \/ \E target \in {"s", "w", "-"} : ClickOutsideRows(target) /\ UNCHANGED history

SpecTimers == Init /\ [][NextTimers]_vars

\* each chart of the page built once, from any payload
NextBuild ==
    \/ \E chartData \in {NoChartData, NoPrices} \cup ChartPayloads :
          priceChart = 0 /\ initializePriceChart(chartData) /\ UNCHANGED history
    \/ \E rsiData \in RSIInputs : rsiChart = 0 /\ initializeRSIChart(rsiData)
          /\ UNCHANGED history

SpecBuild == Init /\ [][NextBuild]_vars

\* the box has sent no lookup yet
SearchUnsent == hist.s.sent = 0
WatchlistUnsent == hist.w.sent = 0

\* the bodies the lookups bring when both boxes are in use: the longest list
\* of suggestions, or none
PagePayloads ==
    { payload \in Payloads :
        /\ ~payload.null
        /\ \A other \in Payloads :
             Len(payload.items) = 0 \/ Len(other.items) <= Len(payload.items) }

NextPage ==
    \/ \E value \in {<<" ", " ">>, <<"t","c","s"," ">>} :
          (Len(Trim(value)) >= 2 => SearchUnsent) /\ StockInput(value) /\ UNCHANGED history
    \/ SearchTimerFires /\ UNCHANGED history
    \/ \E req \in fetches.s, outcome \in Failures : SearchResponse(req, outcome, Null)
          /\ UNCHANGED history
    \/ \E req \in fetches.s, payload \in PagePayloads : SearchResponse(req, "ok", payload)
          /\ UNCHANGED history
    \/ \E key \in Keys : StockKeydown(key) /\ UNCHANGED history
    \/ \E value \in {<<"i"," ">>, <<"i","n">>} :
          (Len(Trim(value)) >= 2 => WatchlistUnsent) /\ WatchlistInput(value)
          /\ UNCHANGED history
    \/ WatchlistTimerFires /\ UNCHANGED history
    \/ \E req \in fetches.w, outcome \in Failures : WatchlistResponse(req, outcome, Null)
          /\ UNCHANGED history
    \/ \E req \in fetches.w, payload \in PagePayloads : WatchlistResponse(req, "ok", payload)
          /\ UNCHANGED history
    \/ \E key \in Keys : WatchlistKeydown(key) /\ UNCHANGED history
    \/ \E i \in 1..Len(searchDropdown.rows) : ClickSearchRow(i) /\ UNCHANGED history
    \/ \E i \in 1..Len(watchlistSearchDropdown.rows) : ClickWatchlistRow(i)
          /\ UNCHANGED history
    \/ \E target \in {"s", "w", "-"} : ClickOutsideRows(target) /\ UNCHANGED history

SpecPage == Init /\ [][NextPage]_vars

---------------------------------------------------------------------------
(* The two widgets side by side: every event is given to both, the same    *)
(* text typed, the same key pressed, the same click made outside, the two  *)
(* timers run out together and the two lookups answered alike.             *)

TwinInput(value) ==
    /\ PageLive
    /\ Len(Trim(value)) >= 2 => hist.s.sent < MaxLookups /\ hist.w.sent < MaxLookups
    /\ LET s == stockSearchOnInput(searchTimeout, searchDropdown, value)
           w == watchlistOnInput(watchlistTimeout, watchlistSearchDropdown, value) IN
       /\ stockSearch' = value
       /\ searchTimeout' = s.timer
       /\ searchDropdown' = s.dropdown
       /\ watchlistSymbol' = value
       /\ watchlistTimeout' = w.timer
       /\ watchlistSearchDropdown' = w.dropdown
    /\ hist' = [hist EXCEPT !.s = HistInput(@, Trim(value)),
                            !.w = HistInput(@, Trim(value))]
    /\ UNCHANGED <<selectedStockSymbol, selectedExchange, pageVars, chartVars, fetches,
                   unhandledRejection>>

TwinTimerFires ==
    /\ PageLive
    /\ Due(searchTimeout) /\ Due(watchlistTimeout)
    /\ searchTimeout' = NoTimer
    /\ watchlistTimeout' = NoTimer
    /\ searchDropdown' = searchStocksSend(searchDropdown)
    /\ watchlistSearchDropdown' = searchStocksForWatchlistSend(watchlistSearchDropdown)
    /\ fetches' = [fetches EXCEPT !.s = @ \cup {[gen |-> hist.s.sent + 1]},
                                  !.w = @ \cup {[gen |-> hist.w.sent + 1]}]
    /\ hist' = [hist EXCEPT !.s = HistSend(@, TRUE), !.w = HistSend(@, FALSE)]
    /\ UNCHANGED <<stockSearch, watchlistSymbol, selectedStockSymbol, selectedExchange,
                   pageVars, chartVars, unhandledRejection>>

TwinResponse(req, outcome, payload) ==
    /\ PageLive
    /\ req \in fetches.s /\ req \in fetches.w
    /\ LET s == searchStocksSettle(searchDropdown, outcome, payload)
           w == searchStocksForWatchlistSettle(watchlistSearchDropdown, outcome,
                                               payload) IN
       /\ searchDropdown' = s.dropdown
       /\ watchlistSearchDropdown' = w.dropdown
       /\ unhandledRejection' = (unhandledRejection \/ s.rejected \/ w.rejected)
    /\ fetches' = [fetches EXCEPT !.s = @ \ {req}, !.w = @ \ {req}]
    /\ hist' = [hist EXCEPT !.s.shown = req.gen, !.w.shown = req.gen]
    /\ UNCHANGED <<stockSearch, watchlistSymbol, searchTimeout, watchlistTimeout,
                   selectedStockSymbol, selectedExchange, pageVars, chartVars>>

\* the key goes to the keydown listener of either input
TwinKeydown(key) ==
    /\ PageLive
    /\ LET a == ActiveItem(searchDropdown) IN
       CASE key = "ArrowDown" ->
              /\ searchDropdown' = ArrowDown(searchDropdown)
              /\ UNCHANGED <<stockSearch, selectedStockSymbol, pageVars>>
         [] key = "ArrowUp" ->
              /\ searchDropdown' = ArrowUp(searchDropdown)
              /\ UNCHANGED <<stockSearch, selectedStockSymbol, pageVars>>
         [] key = "Enter" /\ a # 0 ->
              LET after == selectStock(searchDropdown.rows[a], selectedExchange,
                                       searchDropdown) IN
              /\ stockSearch' = after.value
              /\ selectedStockSymbol' = after.selected
              /\ searchDropdown' = after.dropdown
              /\ UNCHANGED pageVars
         [] key = "Enter" /\ a = 0 ->
              /\ analyzeSelectedStock
              /\ UNCHANGED <<stockSearch, selectedStockSymbol, searchDropdown>>
         [] key = "Escape" ->
              /\ searchDropdown' = hideSearchDropdown(searchDropdown)
              /\ UNCHANGED <<stockSearch, selectedStockSymbol, pageVars>>
    /\ LET a == ActiveItem(watchlistSearchDropdown) IN
       CASE key = "ArrowDown" ->
              /\ watchlistSearchDropdown' = ArrowDown(watchlistSearchDropdown)
              /\ UNCHANGED watchlistSymbol
         [] key = "ArrowUp" ->
              /\ watchlistSearchDropdown' = ArrowUp(watchlistSearchDropdown)
              /\ UNCHANGED watchlistSymbol
         [] key = "Enter" /\ a # 0 ->
              LET after == selectWatchlistStock(watchlistSearchDropdown.rows[a],
                                                watchlistSearchDropdown) IN
              /\ watchlistSymbol' = after.value
              /\ watchlistSearchDropdown' = after.dropdown
         [] key = "Enter" /\ a = 0 ->
              UNCHANGED <<watchlistSymbol, watchlistSearchDropdown>>
         [] key = "Escape" ->
              /\ watchlistSearchDropdown' = hideWatchlistDropdown(watchlistSearchDropdown)
              /\ UNCHANGED watchlistSymbol
    /\ UNCHANGED <<searchTimeout, watchlistTimeout, selectedExchange, chartVars,
                   fetches, hist, unhandledRejection>>

NextTwin ==
    \/ \E value \in SearchInputs : TwinInput(value) /\ UNCHANGED history
    \/ TwinTimerFires /\ UNCHANGED history
    \/ \E req \in fetches.s, outcome \in Failures : TwinResponse(req, outcome, Null)
          /\ UNCHANGED history
    \/ \E req \in fetches.s, payload \in Payloads : TwinResponse(req, "ok", payload)
          /\ UNCHANGED history
    \/ \E key \in Keys : TwinKeydown(key) /\ UNCHANGED history
    \/ ClickOutsideRows("-") /\ UNCHANGED history

SpecTwin == Init /\ [][NextTwin]_vars

---------------------------------------------------------------------------
(* The properties.                                                         *)

TCS == <<"T","C","S">>
INFY == <<"I","N","F","Y">>

\* the symbol the typed text stands for: the trimmed, upper-cased text, with
\* the suffix of the exchange unless it carries .NS or .BO already
TypedSymbol(text, exchange) ==
    LET T == ToUpperCase(Trim(text)) IN
    IF EndsWith(T, DotNS) \/ EndsWith(T, DotBO) THEN T
    ELSE IF exchange = "BSE" THEN T \o DotBO
    ELSE T \o DotNS

\* C1: debounce.  After every input event of a widget the one lookup that
\* is pending is the lookup for that event's query: the event has cancelled
\* the lookup an earlier event left pending, and (for a query of fewer than
\* 2 characters, for which no lookup is made) none is pending.
C1_InputCancelsPending ==
    [][ /\ (\E value \in SearchInputs : StockInput(value)) =>
             IF Len(Trim(stockSearch')) >= 2
             THEN searchTimeout'.pending /\ searchTimeout'.query = Trim(stockSearch')
             ELSE ~searchTimeout'.pending
        /\ (\E value \in WatchlistInputs : WatchlistInput(value)) =>
             IF Len(Trim(watchlistSymbol')) >= 2
             THEN watchlistTimeout'.pending
                  /\ watchlistTimeout'.query = Trim(watchlistSymbol')
             ELSE ~watchlistTimeout'.pending ]_vars

\* C2: from an input event with a query of fewer than 2 characters until the
\* next input event with a longer one, the widget sends no lookup and its
\* dropdown is hidden.
C2_ShortQueryQuiet ==
    [][ /\ hist'.s.quiet => (~searchDropdown'.visible /\ hist'.s.sent = hist.s.sent)
        /\ hist'.w.quiet =>
             (~watchlistSearchDropdown'.visible /\ hist'.w.sent = hist.w.sent) ]_vars

\* C3: a lookup that was sent is never cancelled: it stays in flight until
\* its response comes, and its response is rendered into the dropdown
\* whatever was sent or rendered since, so that the response of an earlier
\* lookup can replace the rows of a later one.
C3_SentLookupRendered ==
    [][ /\ \A req \in fetches.s :
             \/ req \in fetches'.s
             \/ /\ searchDropdown'.visible
                /\ searchDropdown'.active = {}
                /\ hist'.s.shown = req.gen
        /\ \A req \in fetches.w :
             \/ req \in fetches'.w
             \/ /\ watchlistSearchDropdown'.visible
                /\ watchlistSearchDropdown'.active = {}
                /\ hist'.w.shown = req.gen ]_vars

\* C3, the race: two lookups of the primary search are in flight at once
C3_TwoInFlight == Cardinality(fetches.s) >= 2

\* C3, the race: the dropdown shows the suggestions of a lookup older than
\* the last one sent, whose response has come before
C3_StaleResultsShown ==
    /\ hist.s.shown # 0
    /\ hist.s.shown < hist.s.sent
    /\ \A req \in fetches.s : req.gen # hist.s.sent
    /\ searchDropdown.visible
    /\ searchDropdown.rows[1].kind = "result"

\* C4: committing a suggestion row of the primary search, by a click or by
\* Enter while it is highlighted, sets the input text to the row's symbol
\* and the committed symbol to the row's BSE symbol if the exchange is BSE
\* and to its NSE symbol otherwise, and closes the dropdown with no row
\* highlighted.
C4_CommitRow ==
    [][ \A i \in 1..Len(searchDropdown.rows) :
          LET row == searchDropdown.rows[i] IN
          ( /\ row.kind = "result"
            /\ \/ ClickSearchRow(i)
               \/ StockKeydown("Enter") /\ ActiveItem(searchDropdown) = i )
          => /\ stockSearch' = row.symbol
             /\ (selectedExchange = "BSE") => selectedStockSymbol' = row.bse
             /\ (selectedExchange # "BSE") => selectedStockSymbol' = row.nse
             /\ selectedStockSymbol' # row.bse => selectedExchange # "BSE"
             /\ ~searchDropdown'.visible
             /\ searchDropdown'.active = {} ]_vars

C4_CommittedBSE ==
    /\ selectedExchange = "BSE"
    /\ stockSearch = INFY
    /\ selectedStockSymbol = INFY \o DotBO
    /\ ~searchDropdown.visible
    /\ Len(searchDropdown.rows) = 2

\* C5: with no committed symbol and a typed text that is not blank,
\* analyzeSelectedStock navigates to /analyze/ and the trimmed, upper-cased
\* text, with .BO (exchange BSE) or .NS appended unless the text ends in .NS
\* or .BO already: TCS gives TCS.NS with NSE and TCS.BO with BSE, TCS.NS
\* gives TCS.NS with either.
C5_SubmitNormalizes ==
    (location # NoLocation /\ ~Truthy(selectedStockSymbol)) =>
        /\ Trim(stockSearch) # <<>>
        /\ location = AnalyzePath \o TypedSymbol(stockSearch, selectedExchange)
        /\ (stockSearch = <<"t","c","s"," ">> /\ selectedExchange = "NSE") =>
               location = AnalyzePath \o <<"T","C","S",".","N","S">>
        /\ (stockSearch = <<"t","c","s"," ">> /\ selectedExchange = "BSE") =>
               location = AnalyzePath \o <<"T","C","S",".","B","O">>
        /\ stockSearch = <<"T","C","S",".","N","S">> =>
               location = AnalyzePath \o <<"T","C","S",".","N","S">>
        /\ stockSearch = <<"t","c","s",".","b","o">> =>
               location = AnalyzePath \o <<"T","C","S",".","B","O">>

C5_SuffixKept ==
    /\ location = AnalyzePath \o <<"T","C","S",".","N","S">>
    /\ stockSearch = <<"T","C","S",".","N","S">>
    /\ selectedExchange = "BSE"
    /\ selectedStockSymbol = <<>>

\* C6: Enter in the primary search with no row highlighted and a text that
\* is not blank navigates to /analyze/ and the symbol derived from the text
\* that is in the input then, whatever was typed, committed or changed
\* before.
C6_EnterSubmitsTypedText ==
    [][ ( /\ StockKeydown("Enter")
          /\ ActiveItem(searchDropdown) = 0
          /\ Trim(stockSearch) # <<>> )
        => location' = AnalyzePath \o TypedSymbol(stockSearch, selectedExchange) ]_vars

\* C7: a lookup whose fetch rejects, answers with a status that is no
\* success or has a body that is no JSON ends with the dropdown on show and
\* holding the error row alone, with no rejected promise, and with the
\* input text, the committed symbol and the exchange as they were.
C7_LookupFailsOpen ==
    [][ /\ (\E req \in fetches.s, outcome \in Failures :
                SearchResponse(req, outcome, Null)) =>
             /\ searchDropdown'.visible
             /\ searchDropdown'.rows = <<ErrorRow>>
             /\ ~unhandledRejection'
             /\ UNCHANGED <<stockSearch, selectedStockSymbol, selectedExchange>>
        /\ (\E req \in fetches.w, outcome \in Failures :
                WatchlistResponse(req, outcome, Null)) =>
             /\ watchlistSearchDropdown'.visible
             /\ watchlistSearchDropdown'.rows = <<ErrorRow>>
             /\ ~unhandledRejection'
             /\ UNCHANGED <<watchlistSymbol, selectedStockSymbol, selectedExchange>> ]_vars

C7_ErrorRowShown ==
    /\ watchlistSearchDropdown.visible
    /\ watchlistSearchDropdown.rows = <<ErrorRow>>
    /\ fetches.w = {}
    /\ hist.w.shown = hist.w.sent
    /\ watchlistSymbol = <<"i","n">>

\* C8: the two search widgets have states of their own.  An input event, a
\* key event or the response of a lookup of one widget leaves the pending
\* timer, the rows, the visibility and the highlight of the other widget as
\* they were, and committing a row of the watchlist search leaves the input
\* text, the committed symbol and the exchange of the primary search as they
\* were.
C8_WidgetsIndependent ==
    [][ /\ ( \/ \E value \in SearchInputs : StockInput(value)
             \/ \E key \in Keys : StockKeydown(key)
             \/ SearchTimerFires
             \/ \E req \in fetches.s, outcome \in Failures \cup {"ok"},
                   payload \in Payloads : SearchResponse(req, outcome, payload) )
           => UNCHANGED <<watchlistTimeout, watchlistSearchDropdown>>
        /\ ( \/ \E value \in WatchlistInputs : WatchlistInput(value)
             \/ \E key \in Keys : WatchlistKeydown(key)
             \/ WatchlistTimerFires
             \/ \E req \in fetches.w, outcome \in Failures \cup {"ok"},
                   payload \in Payloads : WatchlistResponse(req, outcome, payload) )
           => UNCHANGED <<searchTimeout, searchDropdown>>
        /\ ( \/ \E i \in 1..Len(watchlistSearchDropdown.rows) :
                  /\ watchlistSearchDropdown.rows[i].kind = "result"
                  /\ ClickWatchlistRow(i)
             \/ /\ ActiveItem(watchlistSearchDropdown) # 0
                /\ WatchlistKeydown("Enter") )
           => UNCHANGED <<stockSearch, selectedStockSymbol, selectedExchange>> ]_vars

\* a row of the watchlist search was committed while the primary search had
\* a lookup pending
C8_BothInUse ==
    /\ watchlistSymbol = INFY
    /\ ~watchlistSearchDropdown.visible
    /\ Len(watchlistSearchDropdown.rows) = 2
    /\ stockSearch = <<"t","c","s"," ">>
    /\ searchTimeout.pending
    /\ searchDropdown.rows = <<>>

\* C9: each canvas has at most one live chart, after any calls of the two
\* builders: the chart a builder made before is destroyed when it makes the
\* next.
C9_OneLiveChartPerCanvas ==
    \A canvas \in {"priceChart", "rsiChart"} :
        /\ Cardinality({ i \in DOMAIN instances :
                           instances[i].canvas = canvas /\ instances[i].live }) <= 1
        /\ \A i \in DOMAIN instances :
             (instances[i].canvas = canvas /\ instances[i].live) =>
                 i = (IF canvas = "priceChart" THEN priceChart ELSE rsiChart)

C9_ChartRebuilt ==
    \E i, j \in DOMAIN instances :
        /\ i < j
        /\ instances[i].canvas = "priceChart" /\ ~instances[i].live
        /\ instances[j].canvas = "priceChart" /\ instances[j].live
        /\ \E k \in DOMAIN instances :
             instances[k].canvas = "rsiChart" /\ instances[k].live

\* C10: after a successful response with a list of suggestions that is not
\* empty the dropdown is on show and has one row per suggestion, in the
\* order of the list, row i with the symbol, the NSE symbol and the BSE
\* symbol of suggestion i.
C10_RowsAreSuggestions ==
    [][ \A payload \in Payloads :
          (~payload.null /\ Len(payload.items) > 0) =>
            /\ (\E req \in fetches.s : SearchResponse(req, "ok", payload)) =>
                 /\ searchDropdown'.visible
                 /\ Len(searchDropdown'.rows) = Len(payload.items)
                 /\ \A i \in 1..Len(payload.items) :
                      /\ searchDropdown'.rows[i].kind = "result"
                      /\ searchDropdown'.rows[i].symbol = payload.items[i].symbol
                      /\ searchDropdown'.rows[i].nse = payload.items[i].nse_symbol
                      /\ searchDropdown'.rows[i].bse = payload.items[i].bse_symbol
            /\ (\E req \in fetches.w : WatchlistResponse(req, "ok", payload)) =>
                 /\ watchlistSearchDropdown'.visible
                 /\ Len(watchlistSearchDropdown'.rows) = Len(payload.items)
                 /\ \A i \in 1..Len(payload.items) :
                      /\ watchlistSearchDropdown'.rows[i].kind = "result"
                      /\ watchlistSearchDropdown'.rows[i].symbol = payload.items[i].symbol
                      /\ watchlistSearchDropdown'.rows[i].nse =
                             payload.items[i].nse_symbol
                      /\ watchlistSearchDropdown'.rows[i].bse =
                             payload.items[i].bse_symbol ]_vars

C10_TwoRowsShown ==
    /\ searchDropdown.visible
    /\ Len(searchDropdown.rows) = 2
    /\ searchDropdown.rows[1].symbol = TCS
    /\ searchDropdown.rows[2].symbol = INFY
    /\ searchDropdown.rows[2].bse = INFY \o DotBO

\* C11: the arrow keys move the highlight without wraparound.  ArrowDown
\* with the last row highlighted and ArrowUp with the first row highlighted
\* leave the highlight where it is; with any other row highlighted the
\* highlight moves by exactly one row, down or up, and the rows stay as
\* they are.
C11_ArrowsClamp ==
    [][ /\ ActiveItem(searchDropdown) # 0 =>
          LET a == ActiveItem(searchDropdown)
              n == Len(searchDropdown.rows) IN
          /\ StockKeydown("ArrowDown") =>
               /\ searchDropdown'.active = {IF a = n THEN a ELSE a + 1}
               /\ searchDropdown'.rows = searchDropdown.rows
          /\ StockKeydown("ArrowUp") =>
               /\ searchDropdown'.active = {IF a = 1 THEN a ELSE a - 1}
               /\ searchDropdown'.rows = searchDropdown.rows
        /\ ActiveItem(watchlistSearchDropdown) # 0 =>
          LET a == ActiveItem(watchlistSearchDropdown)
              n == Len(watchlistSearchDropdown.rows) IN
          /\ WatchlistKeydown("ArrowDown") =>
               /\ watchlistSearchDropdown'.active = {IF a = n THEN a ELSE a + 1}
               /\ watchlistSearchDropdown'.rows = watchlistSearchDropdown.rows
          /\ WatchlistKeydown("ArrowUp") =>
               /\ watchlistSearchDropdown'.active = {IF a = 1 THEN a ELSE a - 1}
               /\ watchlistSearchDropdown'.rows = watchlistSearchDropdown.rows ]_vars

\* the last of the two rows of the primary dropdown is highlighted
C11_HighlightAtEnds ==
    /\ Len(searchDropdown.rows) = 2
    /\ searchDropdown.visible
    /\ searchDropdown.active = {2}

\* C12: Escape in a widget, and a click outside the input and the dropdown
\* of a widget, hide the dropdown of that widget with no row highlighted,
\* and leave the text of its input as it was, and with it, for the primary
\* search, the committed symbol and the exchange.
C12_CloseKeepsSelection ==
    [][ /\ ( \/ StockKeydown("Escape")
             \/ \E target \in {"w", "-"} : ClickOutsideRows(target)
             \/ \E i \in 1..Len(watchlistSearchDropdown.rows) : ClickWatchlistRow(i) )
           => /\ ~searchDropdown'.visible
              /\ searchDropdown'.active = {}
              /\ searchDropdown'.rows = searchDropdown.rows
              /\ UNCHANGED <<stockSearch, selectedStockSymbol, selectedExchange>>
        /\ ( \/ WatchlistKeydown("Escape")
             \/ \E target \in {"s", "-"} : ClickOutsideRows(target)
             \/ \E i \in 1..Len(searchDropdown.rows) : ClickSearchRow(i) )
           => /\ ~watchlistSearchDropdown'.visible
              /\ watchlistSearchDropdown'.active = {}
              /\ watchlistSearchDropdown'.rows = watchlistSearchDropdown.rows
              /\ UNCHANGED watchlistSymbol
        /\ ( \/ StockKeydown("Escape")
             \/ WatchlistKeydown("Escape")
             \/ \E target \in {"s", "w", "-"} : ClickOutsideRows(target) )
           => UNCHANGED <<stockSearch, watchlistSymbol, selectedStockSymbol,
                          selectedExchange>> ]_vars

\* the primary dropdown was closed with its two suggestions in it and none
\* of them committed
C12_ClosedUncommitted ==
    /\ ~searchDropdown.visible
    /\ searchDropdown.active = {}
    /\ Len(searchDropdown.rows) = 2
    /\ stockSearch = <<"t","c","s"," ">>
    /\ selectedStockSymbol = <<>>
    /\ selectedExchange = "BSE"

\* C13: the two widgets behave alike.  Given the same input events, key
\* events, outside clicks and lookup responses from the start, the primary
\* dropdown and the watchlist dropdown are on show or hidden together, hold
\* the same rows and have the same row highlighted, and the two inputs hold
\* the same text, Enter having had the same effect on both.
C13_WidgetsAlike ==
    /\ searchDropdown.visible = watchlistSearchDropdown.visible
    /\ searchDropdown.rows = watchlistSearchDropdown.rows
    /\ ActiveItem(searchDropdown) = ActiveItem(watchlistSearchDropdown)
    /\ stockSearch = watchlistSymbol
    /\ location = NoLocation

\* the label of the series of an overlay
OverlayLabel(indicator) ==
    CASE indicator = "ema_9" -> "EMA 9"
      [] indicator = "ema_21" -> "EMA 21"
      [] indicator = "sma_50" -> "SMA 50"
      [] indicator = "sma_200" -> "SMA 200"
      [] indicator = "bb_upper" -> "BB Upper"
      [] indicator = "bb_lower" -> "BB Lower"

\* the series with the label in the list
Labelled(datasets, label) == { i \in 1..Len(datasets) : datasets[i].label = label }

\* C14: the list of series of the price chart begins with the close prices,
\* and for each overlay (EMA 9, EMA 21, SMA 50, SMA 200, upper band, lower
\* band) the series of the overlay is in the list if and only if the
\* payload has data for that overlay and the data is not empty.
C14_OverlayIffOwnData ==
    [][ \A chartData \in ChartPayloads :
          initializePriceChart(chartData) =>
            LET datasets == instances'[priceChart'].config.datasets IN
            /\ datasets[1].label = "Close Price"
            /\ \A indicator \in Indicators :
                 (Labelled(datasets, OverlayLabel(indicator)) # {})
                   <=> NonEmpty(chartData.indicators[indicator]) ]_vars

\* C15: the volume series is in the list of series of the price chart, on
\* the scale y1, if and only if the payload has a volume sequence that is
\* not empty, and when it is in the list the maximum of the scale y1 is 4
\* times the largest volume of the payload.
C15_VolumeScale ==
    [][ \A chartData \in ChartPayloads :
          initializePriceChart(chartData) =>
            LET config == instances'[priceChart'].config
                shown == Labelled(config.datasets, "Volume") IN
            /\ (shown # {}) <=> NonEmpty(chartData.volume)
            /\ Cardinality(shown) <= 1
            /\ \A i \in shown :
                 /\ config.datasets[i].yAxisID = "y1"
                 /\ config.datasets[i].data = chartData.volume.values
                 /\ config.y1max.finite
                 /\ \E k \in 1..Len(chartData.volume.values) :
                      /\ config.y1max.value = 4 * chartData.volume.values[k]
                      /\ \A j \in 1..Len(chartData.volume.values) :
                           chartData.volume.values[j] <= chartData.volume.values[k] ]_vars

\* a price chart with the volumes 7 and 2 on y1, whose maximum is 28
C15_PeakFirst ==
    /\ priceChart # 0
    /\ instances[priceChart].live
    /\ \E i \in 1..Len(instances[priceChart].config.datasets) :
         /\ instances[priceChart].config.datasets[i].label = "Volume"
         /\ instances[priceChart].config.datasets[i].yAxisID = "y1"
         /\ instances[priceChart].config.datasets[i].data = <<7, 2>>
    /\ instances[priceChart].config.y1max = [finite |-> TRUE, value |-> 28]

\* C16: every configuration initializeRSIChart builds has one series, a
\* y-axis from 0 to 100 whatever the values of the RSI data, and two
\* horizontal lines, "overbought" at 70 and "oversold" at 30.
C16_RSIConfigFixed ==
    \A i \in DOMAIN instances :
        (instances[i].canvas = "rsiChart" /\ instances[i].live) =>
            LET config == instances[i].config IN
            /\ Len(config.datasets) = 1
            /\ config.ymin = 0
            /\ config.ymax = 100
            /\ Cardinality(config.annotations) = 2
            /\ \E line \in config.annotations :
                 line.name = "overbought" /\ line.yMin = 70 /\ line.yMax = 70
            /\ \E line \in config.annotations :
                 line.name = "oversold" /\ line.yMin = 30 /\ line.yMax = 30

\* an RSI chart of data that goes beyond 100
C16_RSIOutOfRange ==
    /\ rsiChart # 0
    /\ instances[rsiChart].live
    /\ instances[rsiChart].canvas = "rsiChart"
    /\ \E k \in 1..Len(instances[rsiChart].config.datasets[1].data) :
         instances[rsiChart].config.datasets[1].data[k] > 100

\* C17: a dropdown that was closed by Escape, by a click outside or by
\* committing a row stays hidden until the next input event of its widget:
\* neither the timer running out nor the response of a lookup, pending when
\* it was closed, shows it again.
C17_ClosedStaysHidden ==
    /\ closed.s => ~searchDropdown.visible
    /\ closed.w => ~watchlistSearchDropdown.visible

\* the suggestions a lookup can return
Suggestions == { Catalogue[i] : i \in 1..Len(Catalogue) }

\* C18: only suggestions are committed.  The committed symbol is empty or
\* the NSE or BSE symbol of a suggestion of some lookup, the text of the
\* input is what was typed or the symbol of a suggestion, and no row but a
\* suggestion is ever highlighted, so that the loading row, the error row
\* and the row "No stocks found" cannot be committed with Enter.
C18_OnlySuggestionsCommitted ==
    /\ selectedStockSymbol \in
           {<<>>} \cup { stock.nse_symbol : stock \in Suggestions }
                  \cup { stock.bse_symbol : stock \in Suggestions }
    /\ stockSearch \in
           {<<>>} \cup SearchInputs \cup { stock.symbol : stock \in Suggestions }
    /\ \A i \in searchDropdown.active : searchDropdown.rows[i].kind = "result"

\* C19: a row is highlighted only while the dropdown is on show, in either
\* widget, so that Enter commits a row only from a dropdown on show, and an
\* arrow key pressed after the dropdown was closed highlights nothing.
C19_HighlightOnlyWhileVisible ==
    /\ searchDropdown.active # {} => searchDropdown.visible
    /\ watchlistSearchDropdown.active # {} => watchlistSearchDropdown.visible

\* C20: when analyzeSelectedStock has navigated, the symbol it went to is of
\* the exchange selected at that moment, ending in .BO with BSE selected
\* and in .NS otherwise, unless the text typed ends in .NS or .BO itself;
\* also when the exchange was changed after a row was committed.
C20_TargetOfSelectedExchange ==
    ( /\ location # NoLocation
      /\ ~EndsWith(ToUpperCase(Trim(stockSearch)), DotNS)
      /\ ~EndsWith(ToUpperCase(Trim(stockSearch)), DotBO) )
    => EndsWith(location, IF selectedExchange = "BSE" THEN DotBO ELSE DotNS)

\* C21: at most one row of a dropdown is highlighted, in every state either
\* widget reaches by arrow keys, Enter, Escape, clicks outside, input events
\* and responses of lookups.
C21_OneRowHighlighted ==
    /\ Cardinality(searchDropdown.active) <= 1
    /\ Cardinality(watchlistSearchDropdown.active) <= 1
    /\ searchDropdown.active \subseteq 1..Len(searchDropdown.rows)
    /\ watchlistSearchDropdown.active \subseteq 1..Len(watchlistSearchDropdown.rows)

\* the highlight has come from the last to the first of the two rows of the
\* watchlist dropdown
C21_HighlightMoved ==
    /\ Len(watchlistSearchDropdown.rows) = 2
    /\ watchlistSearchDropdown.visible
    /\ watchlistSearchDropdown.active = {1}
    /\ hist.w.shown = 2

\* C22: a submit while the text of the input is empty once trimmed shows a
\* warning and does not navigate, whether a row was committed before or
\* not, and leaves the committed symbol, the exchange and the submit button
\* as they were.
C22_EmptySubmitWarns ==
    [][ ( /\ Trim(stockSearch) = <<>>
          /\ \/ SubmitForm
             \/ StockKeydown("Enter") /\ ActiveItem(searchDropdown) = 0 )
        => /\ alerts' = alerts + 1
           /\ location' = NoLocation
           /\ ~submitDisabled'
           /\ UNCHANGED <<selectedStockSymbol, selectedExchange, submitDisabled,
                          stockSearch>> ]_vars

\* the warning is on show after a row was committed and the text cleared
C22_WarnedAfterCommit ==
    /\ alerts > 0
    /\ location = NoLocation
    /\ Trim(stockSearch) = <<>>
    /\ stockSearch # <<>>
    /\ selectedStockSymbol = TCS \o DotBO

\* C23: each widget has at most one debounce timer that is set and has
\* neither fired nor been cleared, namely the one its variable names, and
\* every lookup a widget issues is for a query, already trimmed, of at
\* least 2 characters
C23_OneTimerLongQuery ==
    [][ /\ \A w \in Widgets : timers'[w] <= 1
        /\ (timers'.s = 1) <=> searchTimeout'.pending
        /\ (timers'.w = 1) <=> watchlistTimeout'.pending
        /\ SearchTimerFires
              => /\ Len(Trim(searchTimeout.query)) >= 2
                 /\ Trim(searchTimeout.query) = searchTimeout.query
                 /\ Cardinality(fetches'.s) = Cardinality(fetches.s) + 1
        /\ WatchlistTimerFires
              => /\ Len(Trim(watchlistTimeout.query)) >= 2
                 /\ Trim(watchlistTimeout.query) = watchlistTimeout.query
                 /\ Cardinality(fetches'.w) = Cardinality(fetches.w) + 1 ]_vars

\* a lookup of the primary box is in flight and the box, typed in again,
\* has one timer set
C23_RetypedWhileInFlight ==
    /\ fetches.s # {}
    /\ hist.s.sent = 1
    /\ searchTimeout.pending
    /\ timers.s = 1
    /\ Len(Trim(stockSearch)) >= 2

====
